---- MODULE Spec2Model ----
(***************************************************************************)
(* Telco customer churn: the training pipeline of scripts/run_pipeline.py  *)
(* (load -> validate -> preprocess -> build_features -> feature contract   *)
(* -> train) with the cleaning of src/data/preprocess.py and the encoders  *)
(* of src/features/build_features.py.                                      *)
(*                                                                         *)
(* A cell of a dataframe is a record: a string, a number or the missing    *)
(* value NaN.  A column is a name, a pandas dtype and its cells; a         *)
(* dataframe is the sequence of its columns, so that column order and      *)
(* duplicate column names are those of the program.                        *)
(***************************************************************************)
EXTENDS Integers, Sequences, FiniteSets, TLC

\* ------------------------------------------------------------------ bounds
\* Rows of the input file.
NRows == 3
\* Invocations of the training pipeline.
MaxRuns == 2

\* ------------------------------------------------------------------ cells
Str(x) == [k |-> "str", s |-> x, n |-> 0]
Num(x) == [k |-> "num", s |-> "", n |-> x]
NaN == [k |-> "na", s |-> "", n |-> 0]

IsNa(c) == c.k = "na"

\* The code points of the strings the model draws from: Python compares
\* str values code point by code point (sorted() in _map_binary_series,
\* the sorted categories of get_dummies).
CodePoints(x) ==
  CASE x = "Yes" -> <<89, 101, 115>>
    [] x = "No" -> <<78, 111>>
    [] x = "no" -> <<110, 111>>
    [] x = " Yes" -> <<32, 89, 101, 115>>
    [] x = "Male" -> <<77, 97, 108, 101>>
    [] x = "Female" -> <<70, 101, 109, 97, 108, 101>>
    [] x = "nan" -> <<110, 97, 110>>
    [] x = "0" -> <<48>>
    [] x = "1" -> <<49>>
    [] OTHER -> <<>>

RECURSIVE SeqLess(_, _)
SeqLess(a, b) ==
  IF b = <<>> THEN FALSE
  ELSE IF a = <<>> THEN TRUE
  ELSE IF Head(a) # Head(b) THEN Head(a) < Head(b)
  ELSE SeqLess(Tail(a), Tail(b))

\* Python's  a < b  on two str values.
StrLess(a, b) == SeqLess(CodePoints(a), CodePoints(b))

\* str.strip() on the strings the model draws from.
Strip(x) == IF x = " Yes" THEN "Yes" ELSE IF x = "tenure " THEN "tenure" ELSE x

\* str(x) of a cell, as Series.astype(str) applies it: a missing value of an
\* object column becomes the text "nan".
AsStr(c) ==
  CASE c.k = "str" -> c
    [] c.k = "na" -> Str("nan")
    [] c.k = "num" -> Str(IF c.n = 0 THEN "0" ELSE "1")

\* ------------------------------------------------------------------ sequences
Range(q) == {q[i] : i \in DOMAIN q}

RECURSIVE SelectCells(_, _)
\* q without its missing cells (Series.dropna) when drop, else q.
SelectCells(q, drop) ==
  IF q = <<>> THEN <<>>
  ELSE IF drop /\ IsNa(Head(q)) THEN SelectCells(Tail(q), drop)
  ELSE <<Head(q)>> \o SelectCells(Tail(q), drop)

DropNa(q) == SelectCells(q, TRUE)

RECURSIVE UniqueFrom(_, _)
UniqueFrom(q, seen) ==
  IF q = <<>> THEN <<>>
  ELSE IF Head(q) \in seen THEN UniqueFrom(Tail(q), seen)
  ELSE <<Head(q)>> \o UniqueFrom(Tail(q), seen \cup {Head(q)})

\* Series.unique(): the distinct values in order of first appearance.
Unique(q) == UniqueFrom(q, {})

\* Series.nunique(): the number of distinct non-missing values.
NUnique(q) == Cardinality(Range(DropNa(q)))

RECURSIVE Insert(_, _)
Insert(x, q) ==
  IF q = <<>> THEN <<x>>
  ELSE IF StrLess(x, Head(q)) THEN <<x>> \o q
  ELSE <<Head(q)>> \o Insert(x, Tail(q))

\* The list left as it is: the order of first appearance in the rows.
Unsorted(q) == q

RECURSIVE Sorted(_)
\* sorted(vals) on a list of str, ascending.
Sorted(q) == IF q = <<>> THEN <<>> ELSE Insert(Head(q), Sorted(Tail(q)))

\* The string of each cell of a list of str cells.
Strings(q) == [i \in DOMAIN q |-> q[i].s]

\* ------------------------------------------------------------------ columns
Col(name, dtype, vals) == [name |-> name, dtype |-> dtype, vals |-> vals]

Names(df) == [i \in DOMAIN df |-> df[i].name]

\* The positions of the columns a predicate on positions keeps, in order.
RECURSIVE Keep(_, _, _)
Keep(df, keep, i) ==
  IF i > Len(df) THEN <<>>
  ELSE IF i \in keep THEN <<df[i]>> \o Keep(df, keep, i + 1)
  ELSE Keep(df, keep, i + 1)

\* df.drop(columns=names): every column so labelled goes.
Drop(df, names) == Keep(df, {i \in DOMAIN df : df[i].name \notin names}, 1)

HasColumn(df, name) == \E i \in DOMAIN df : df[i].name = name

IsNumberDtype(d) == d \in {"int64", "float64", "Int64"}
IsIntegerDtype(d) == d \in {"int64", "Int64"}

\* Series.fillna(0)
FillNa0(q) == [i \in DOMAIN q |-> IF IsNa(q[i]) THEN Num(0) ELSE q[i]]

\* ------------------------------------------------------------------ preprocess.py
\* The default of preprocess_data's target_col parameter.
DefaultTarget == "Churn"

IdColumns == {"customerID", "CustomerID", "customer_id"}

\* df[target_col].str.strip().map({"Yes": 1, "No": 0}): a value that is
\* neither becomes missing, and a column with a missing value is float64.
MapTarget(col) ==
  LET vals == [i \in DOMAIN col.vals |->
                 IF IsNa(col.vals[i]) THEN NaN
                 ELSE IF Strip(col.vals[i].s) = "Yes" THEN Num(1)
                 ELSE IF Strip(col.vals[i].s) = "No" THEN Num(0)
                 ELSE NaN]
  IN Col(col.name,
         IF \E i \in DOMAIN vals : IsNa(vals[i]) THEN "float64" ELSE "int64",
         vals)

\* preprocess_data(df, target_col).  The modelled files have no TotalCharges
\* and no SeniorCitizen column, so those two branches are not taken.
preprocess_data(df, target_col) ==
  LET stripped == [i \in DOMAIN df |-> Col(Strip(df[i].name), df[i].dtype, df[i].vals)]
      noid == Drop(stripped, IdColumns)
      mapped == [i \in DOMAIN noid |->
                   IF noid[i].name = target_col /\ noid[i].dtype = "object"
                   THEN MapTarget(noid[i]) ELSE noid[i]]
  IN [i \in DOMAIN mapped |->
        IF IsNumberDtype(mapped[i].dtype)
        THEN Col(mapped[i].name, mapped[i].dtype, FillNa0(mapped[i].vals))
        ELSE mapped[i]]

\* ------------------------------------------------------------------ build_features.py
\* The mapping with its two values exchanged.
MapTo10(q, one, zero) ==
  [i \in DOMAIN q |->
     IF q[i].k = "str" /\ q[i].s = one THEN Num(0)
     ELSE IF q[i].k = "str" /\ q[i].s = zero THEN Num(1)
     ELSE NaN]

\* Series.map(mapping) with mapping = {one: 1, zero: 0}, then astype("Int64"):
\* a value outside the mapping becomes missing.
MapTo01(q, one, zero) ==
  [i \in DOMAIN q |->
     IF q[i].k = "str" /\ q[i].s = one THEN Num(1)
     ELSE IF q[i].k = "str" /\ q[i].s = zero THEN Num(0)
     ELSE NaN]

\* _map_binary_series(s): the dtype and the cells of the returned series.
map_binary_series(s) ==
  LET vals == Strings([i \in DOMAIN Unique(DropNa(s)) |-> AsStr(Unique(DropNa(s))[i])])
      valset == Range(vals)
  IN IF valset = {"Yes", "No"}
     THEN [dtype |-> "Int64", vals |-> MapTo01(s, "Yes", "No")]
     ELSE IF valset = {"Male", "Female"}
     THEN [dtype |-> "Int64", vals |-> MapTo01(s, "Male", "Female")]
     ELSE IF Len(vals) = 2
     THEN LET sorted_vals == Sorted(vals)
          IN [dtype |-> "Int64", vals |-> MapTo01(s, sorted_vals[2], sorted_vals[1])]
     ELSE [dtype |-> "object", vals |-> s]

\* The positions of the object columns that are not the target.
obj_cols(df, target_col) ==
  {i \in DOMAIN df : df[i].dtype = "object" /\ df[i].name # target_col}

binary_cols(df, target_col) ==
  {i \in obj_cols(df, target_col) : NUnique(df[i].vals) = 2}

multi_cat_cols(df, target_col) ==
  {i \in obj_cols(df, target_col) : NUnique(df[i].vals) > 2}

\* The categories get_dummies finds in a column: the distinct non-missing
\* values, sorted.
Categories(q) == Sorted(Strings(Unique(DropNa(q))))

\* The categories that get an indicator column.
AllLevels(cats) == cats

\* drop_first=True: the first category is the reference level.
DropFirst(cats) == Tail(cats)

\* The indicator columns of one column: prefix, "_", category; bool cells,
\* written 1 for True and 0 for False; a missing cell is False in all.
Dummies(col) ==
  LET levels == DropFirst(Categories(col.vals))
  IN [j \in DOMAIN levels |->
        Col(col.name \o "_" \o levels[j], "bool",
            [i \in DOMAIN col.vals |->
               IF col.vals[i].k = "str" /\ col.vals[i].s = levels[j]
               THEN Num(1) ELSE Num(0)])]

RECURSIVE DummyBlocks(_, _, _)
DummyBlocks(df, cols, i) ==
  IF i > Len(df) THEN <<>>
  ELSE IF i \in cols THEN Dummies(df[i]) \o DummyBlocks(df, cols, i + 1)
  ELSE DummyBlocks(df, cols, i + 1)

\* pd.get_dummies(df, columns=cols, drop_first=True): the other columns in
\* their order, then the indicator block of each encoded column.
get_dummies(df, cols) ==
  Keep(df, DOMAIN df \ cols, 1) \o DummyBlocks(df, cols, 1)

\* build_features(df, target_col)
build_features(df, target_col) ==
  LET bin == binary_cols(df, target_col)
      multi == multi_cat_cols(df, target_col)
      \* step 3: binary encoding of df[col].astype(str)
      step3 == [i \in DOMAIN df |->
                  IF i \in bin
                  THEN LET r == map_binary_series([j \in DOMAIN df[i].vals |-> AsStr(df[i].vals[j])])
                       IN Col(df[i].name, r.dtype, r.vals)
                  ELSE df[i]]
      \* step 4: bool columns to Int64
      step4 == [i \in DOMAIN step3 |->
                  IF step3[i].dtype = "bool"
                  THEN Col(step3[i].name, "Int64", step3[i].vals) ELSE step3[i]]
      \* step 5: one-hot encoding
      step5 == IF multi # {} THEN get_dummies(step4, multi) ELSE step4
      binnames == {df[i].name : i \in bin}
  IN \* step 6: integer binary columns lose their missing values
     [i \in DOMAIN step5 |->
        IF step5[i].name \in binnames /\ IsIntegerDtype(step5[i].dtype)
        THEN Col(step5[i].name, "Int64", FillNa0(step5[i].vals))
        ELSE step5[i]]

\* main, lines 99-100: bool columns to int.
BoolToInt(df) ==
  [i \in DOMAIN df |->
     IF df[i].dtype = "bool" THEN Col(df[i].name, "int64", df[i].vals) ELSE df[i]]

\* ------------------------------------------------------------------ input files
\* The text values of the feature column F of a modelled input file.
FValues == {Str("Yes"), Str("No"), Str("Male"), Str("Female"), Str("no"), NaN}

\* pd.read_csv: a column without any text is float64, the others object.
FColumn(vals) ==
  Col("F", IF \A i \in DOMAIN vals : IsNa(vals[i]) THEN "float64" ELSE "object", vals)

\* The Churn column of a modelled input file: two values alternating.
ChurnColumn(a, b) ==
  Col("Churn", "object", [i \in 1..NRows |-> IF i % 2 = 1 THEN Str(a) ELSE Str(b)])

\* A modelled input file as read_csv returns it: an id column, the feature
\* F, a numeric column whose header ends in a blank, and Churn.
File(fvals, churn) ==
  << Col("customerID", "object", [i \in 1..NRows |-> Str("id")]),
     FColumn(fvals),
     Col("tenure ", "int64", [i \in 1..NRows |-> Num(i)]),
     churn >>

ChurnColumns ==
  {ChurnColumn("Yes", "No"), ChurnColumn(" Yes", "No"), ChurnColumn("Yes", "no")}

AllFiles == {File(v, c) : v \in [1..NRows -> FValues], c \in ChurnColumns}

\* A few files, for runs that follow one another.
FewFiles ==
  {File([i \in 1..NRows |-> IF i = 1 THEN a ELSE IF i = 2 THEN b ELSE Str("Male")],
        ChurnColumn("Yes", "No")) :
     a \in {Str("Yes"), Str("Female")}, b \in {Str("No"), Str("Male")}}

\* args.target
Targets == {"Churn", "F", "customerID"}

\* ------------------------------------------------------------------ state
VARIABLES
  files,        \* which input files an invocation may be pointed at
  budget,       \* invocations still to come
  pc,           \* where the current invocation of main stands
  error,        \* the exception that ended it, "" if none
  target,       \* args.target
  raw,          \* the dataframe load_data returned, kept as read
  df,           \* main's df
  df_enc,       \* main's df_enc
  feature_cols, \* main's feature_cols
  X,            \* the feature matrix handed to train_test_split
  json_file,    \* artifacts/feature_columns.json
  pkl_file,     \* artifacts/preprocessing.pkl
  mlruns,       \* the MLflow runs, one record per start_run, in order
  observed,     \* what a serving process last read from feature_columns.json
  steps         \* what the current invocation has done, in order

vars == <<files, budget, pc, error, target, raw, df, df_enc, feature_cols, X,
          json_file, pkl_file, mlruns, observed, steps>>

NoFile == [state |-> "absent", items |-> <<>>]
NoPkl == [state |-> "absent", feature_column |-> <<>>, target |-> ""]
NewRun == [data_quality_pass |-> -1, failed_expectations |-> FALSE,
           txt_logged |-> FALSE, feature_txt |-> <<>>,
           pkl_logged |-> FALSE, pkl |-> NoPkl]

InitWith(fs, n) ==
  /\ files = fs
  /\ budget = n
  /\ pc = "idle"
  /\ error = ""
  /\ target = ""
  /\ raw = <<>>
  /\ df = <<>>
  /\ df_enc = <<>>
  /\ feature_cols = <<>>
  /\ X = <<>>
  /\ json_file = NoFile
  /\ pkl_file = NoPkl
  /\ mlruns = <<>>
  /\ observed = [state |-> "unread", items |-> <<>>]
  /\ steps = <<>>

\* One invocation, on any of the modelled files.
Init == InitWith("all", 1)

\* Invocations one after the other, each on one of a few files.
InitStore == InitWith("few", MaxRuns)

FilesOf(tag) == IF tag = "all" THEN AllFiles ELSE FewFiles

Cur == Len(mlruns)

Abort(e) == pc' = "aborted" /\ error' = e

\* "\n".join(feature_cols): the names with a line break between them.
RECURSIVE Join(_)
Join(names) ==
  IF names = <<>> THEN <<>>
  ELSE IF Len(names) = 1 THEN names
  ELSE <<Head(names), "\n">> \o Join(Tail(names))

\* The columns of df_enc, the target among them.
AllCols(d, tgt) == Names(d)

\* list(df_enc.drop(columns=[target]).columns)
FeatureCols(d, tgt) == Names(Drop(d, {tgt}))

\* ------------------------------------------------------------------ main
\* with mlflow.start_run(): a new run, and the invocation's arguments.
StartRun ==
  /\ pc \in {"idle", "done", "aborted", "crashed"}
  /\ budget > 0
  /\ budget' = budget - 1
  /\ \E t \in Targets : target' = t
  /\ mlruns' = Append(mlruns, NewRun)
  /\ pc' = "started"
  /\ error' = ""
  /\ raw' = <<>>
  /\ df' = <<>>
  /\ df_enc' = <<>>
  /\ feature_cols' = <<>>
  /\ X' = <<>>
  /\ steps' = <<"start_run">>
  /\ UNCHANGED <<files, json_file, pkl_file, observed>>

\* df = load_data(args.input)
LoadData ==
  /\ pc = "started"
  /\ \/ /\ Abort("FileNotFoundError")
        /\ steps' = Append(steps, "load_data_failed")
        /\ df' = df
        /\ raw' = raw
     \/ /\ \E f \in FilesOf(files) : df' = f /\ raw' = f
        /\ pc' = "loaded"
        /\ error' = error
        /\ steps' = Append(steps, "load_data")
  /\ UNCHANGED <<files, budget, target, df_enc, feature_cols, X,
                 json_file, pkl_file, mlruns, observed>>

\* The verdict logged and the details too, but no halt on a false verdict.
ValidateNoHalt ==
  /\ pc = "loaded"
  /\ \E is_valid \in BOOLEAN :
       /\ mlruns' = [mlruns EXCEPT ![Len(mlruns)].data_quality_pass = IF is_valid THEN 1 ELSE 0,
                                   ![Len(mlruns)].failed_expectations = ~is_valid]
       /\ pc' = "validated"
       /\ error' = error
       /\ steps' = Append(steps, "validate_ok")
  /\ UNCHANGED <<raw, files, budget, target, df, df_enc, feature_cols, X,
                 json_file, pkl_file, observed>>

\* is_valid, failed = validate_data(df), the metric, and the halt on a
\* false verdict after the details went to the artifact sink.
ValidateData ==
  /\ pc = "loaded"
  /\ \E is_valid \in BOOLEAN :
       IF is_valid
       THEN /\ mlruns' = [mlruns EXCEPT ![Cur].data_quality_pass = 1]
            /\ pc' = "validated"
            /\ error' = error
            /\ steps' = Append(steps, "validate_ok")
       ELSE /\ mlruns' = [mlruns EXCEPT ![Cur].data_quality_pass = 0,
                                        ![Cur].failed_expectations = TRUE]
            /\ Abort("ValueError: data quality")
            /\ steps' = steps \o <<"log_failed_expectations", "raise_data_quality">>
  /\ UNCHANGED <<raw, files, budget, target, df, df_enc, feature_cols, X,
                 json_file, pkl_file, observed>>

\* df = preprocess_data(df): main does not pass the target.
Preprocess ==
  /\ pc = "validated"
  /\ df' = preprocess_data(df, DefaultTarget)
  /\ pc' = "preprocessed"
  /\ steps' = Append(steps, "preprocess_data")
  /\ UNCHANGED <<raw, files, budget, error, target, df_enc, feature_cols, X,
                 json_file, pkl_file, mlruns, observed>>

\* The target check, build_features and the bool columns made int.
BuildFeatures ==
  /\ pc = "preprocessed"
  /\ IF ~HasColumn(df, target)
     THEN /\ Abort("ValueError: target not found")
          /\ steps' = Append(steps, "raise_target_missing")
          /\ df_enc' = df_enc
     ELSE /\ df_enc' = BoolToInt(build_features(df, target))
          /\ pc' = "encoded"
          /\ error' = error
          /\ steps' = Append(steps, "build_features")
  /\ UNCHANGED <<raw, files, budget, target, df, feature_cols, X,
                 json_file, pkl_file, mlruns, observed>>

\* feature_cols, and open(feature_columns.json, "w"): the file is emptied.
OpenJson ==
  /\ pc = "encoded"
  /\ feature_cols' = FeatureCols(df_enc, target)
  /\ json_file' = [state |-> "open", items |-> <<>>]
  /\ pc' = "json_open"
  /\ steps' = Append(steps, "open_json")
  /\ UNCHANGED <<raw, files, budget, error, target, df, df_enc, X,
                 pkl_file, mlruns, observed>>

\* json.dump writes the list piece by piece: the next name reaches the file.
WriteJson ==
  /\ pc = "json_open"
  /\ Len(json_file.items) < Len(feature_cols)
  /\ json_file' = [json_file EXCEPT
                     !.items = Append(@, feature_cols[Len(json_file.items) + 1])]
  /\ UNCHANGED <<raw, files, budget, pc, error, target, df, df_enc, feature_cols, X,
                 pkl_file, mlruns, observed, steps>>

\* The closing bracket, and the end of the with block.
CloseJson ==
  /\ pc = "json_open"
  /\ Len(json_file.items) = Len(feature_cols)
  /\ json_file' = [json_file EXCEPT !.state = "closed"]
  /\ pc' = "json_closed"
  /\ steps' = Append(steps, "write_json")
  /\ UNCHANGED <<raw, files, budget, error, target, df, df_enc, feature_cols, X,
                 pkl_file, mlruns, observed>>

\* The text logged to the first run instead of the current one.
LogTextFirstRun ==
  /\ pc = "json_closed"
  /\ mlruns' = [mlruns EXCEPT ![1].txt_logged = TRUE,
                              ![1].feature_txt = Join(feature_cols)]
  /\ pc' = "txt_logged"
  /\ steps' = Append(steps, "log_text")
  /\ UNCHANGED <<raw, files, budget, error, target, df, df_enc, feature_cols, X,
                 json_file, pkl_file, observed>>

\* mlflow.log_text("\n".join(feature_cols), "feature_columns.txt")
LogText ==
  /\ pc = "json_closed"
  /\ mlruns' = [mlruns EXCEPT ![Cur].txt_logged = TRUE,
                              ![Cur].feature_txt = Join(feature_cols)]
  /\ pc' = "txt_logged"
  /\ steps' = Append(steps, "log_text")
  /\ UNCHANGED <<raw, files, budget, error, target, df, df_enc, feature_cols, X,
                 json_file, pkl_file, observed>>

\* joblib.dump opens preprocessing.pkl for writing: the file is emptied.
OpenPkl ==
  /\ pc = "txt_logged"
  /\ pkl_file' = [state |-> "open", feature_column |-> <<>>, target |-> ""]
  /\ pc' = "pkl_open"
  /\ UNCHANGED <<raw, files, budget, error, target, df, df_enc, feature_cols, X,
                 json_file, mlruns, observed, steps>>

\* joblib.dump has written {"feature_column": feature_cols, "target": target}.
ClosePkl ==
  /\ pc = "pkl_open"
  /\ pkl_file' = [state |-> "closed", feature_column |-> feature_cols,
                  target |-> target]
  /\ pc' = "pkl_closed"
  /\ steps' = Append(steps, "dump_pkl")
  /\ UNCHANGED <<raw, files, budget, error, target, df, df_enc, feature_cols, X,
                 json_file, mlruns, observed>>

\* mlflow.log_artifact(preprocessing.pkl)
LogArtifact ==
  /\ pc = "pkl_closed"
  /\ mlruns' = [mlruns EXCEPT ![Cur].pkl_logged = TRUE, ![Cur].pkl = pkl_file]
  /\ pc' = "pkl_logged"
  /\ steps' = Append(steps, "log_artifact")
  /\ UNCHANGED <<raw, files, budget, error, target, df, df_enc, feature_cols, X,
                 json_file, pkl_file, observed>>

\* X = df_enc.drop(columns=[target])
Split ==
  /\ pc = "pkl_logged"
  /\ X' = Drop(df_enc, {target})
  /\ pc' = "split"
  /\ steps' = Append(steps, "split")
  /\ UNCHANGED <<raw, files, budget, error, target, df, df_enc, feature_cols,
                 json_file, pkl_file, mlruns, observed>>

\* The split, the fit, the evaluation and the model log, all of them the
\* work of the training consumer: they end well or raise.
Train ==
  /\ pc = "split"
  /\ \/ pc' = "done" /\ error' = error /\ steps' = Append(steps, "train")
     \/ Abort("training failed") /\ steps' = Append(steps, "train_failed")
  /\ UNCHANGED <<raw, files, budget, target, df, df_enc, feature_cols, X,
                 json_file, pkl_file, mlruns, observed>>

\* The process is killed while it writes the contract files.
Crash ==
  /\ pc \in {"json_open", "json_closed", "txt_logged", "pkl_open", "pkl_closed"}
  /\ pc' = "crashed"
  /\ UNCHANGED <<raw, files, budget, error, target, df, df_enc, feature_cols, X,
                 json_file, pkl_file, mlruns, observed, steps>>

\* A serving process reads feature_columns.json as it is on disk.
ServeRead ==
  /\ observed # json_file
  /\ observed' = json_file
  /\ UNCHANGED <<raw, files, budget, pc, error, target, df, df_enc, feature_cols, X,
                 json_file, pkl_file, mlruns, steps>>

Next ==
  \/ StartRun
  \/ LoadData
  \/ ValidateData
  \/ Preprocess
  \/ BuildFeatures
  \/ OpenJson
  \/ WriteJson
  \/ CloseJson
  \/ LogText
  \/ OpenPkl
  \/ ClosePkl
  \/ LogArtifact
  \/ Split
  \/ Train
  \/ Crash
  \/ ServeRead

Spec == Init /\ [][Next]_vars

SpecStore == InitStore /\ [][Next]_vars

\* ------------------------------------------------------------------ properties
Did(step) == step \in Range(steps)

\* The column of that name (the first, were there several).
ColOf(d, name) == d[CHOOSE i \in DOMAIN d : d[i].name = name /\ \A j \in 1..(i - 1) : d[j].name # name]

CountOf(d, name) == Cardinality({i \in DOMAIN d : d[i].name = name})

\* The strings of a column's cells, as a set.
ValueSet(col) == {col.vals[i].s : i \in {j \in DOMAIN col.vals : col.vals[j].k = "str"}}

HasMissing(col) == \E i \in DOMAIN col.vals : IsNa(col.vals[i])

\* A text feature column of the cleaned dataframe.
TextFeature(i) == df[i].dtype = "object" /\ df[i].name # target

\* The greatest string of a set.
Greatest(S) == CHOOSE x \in S : \A y \in S \ {x} : StrLess(y, x)
Least(S) == CHOOSE x \in S : \A y \in S \ {x} : StrLess(x, y)

\* The value the three tiers give 1.
TierOne(S) ==
  IF S = {"Yes", "No"} THEN "Yes"
  ELSE IF S = {"Male", "Female"} THEN "Male"
  ELSE Greatest(S)

\* A set of strings in ascending order.
RECURSIVE Ascending(_)
Ascending(S) == IF S = {} THEN <<>> ELSE <<Least(S)>> \o Ascending(S \ {Least(S)})

\* C1: a text feature column with exactly two distinct values and no
\* missing value comes out of build_features as 0/1 cells, the value the
\* three tiers name (Yes, else Male, else the greater string) as 1 and the
\* other as 0: the cell depends on the raw value and the value set only.
C1_BinaryTiers ==
  Did("build_features") =>
    \A i \in DOMAIN df :
      (TextFeature(i) /\ ~HasMissing(df[i]) /\ Cardinality(ValueSet(df[i])) = 2) =>
        /\ CountOf(df_enc, df[i].name) = 1
        /\ LET enc == ColOf(df_enc, df[i].name)
           IN /\ enc.dtype = "Int64"
              /\ \A r \in DOMAIN df[i].vals :
                   enc.vals[r] = IF df[i].vals[r].s = TierOne(ValueSet(df[i]))
                                 THEN Num(1) ELSE Num(0)

\* C1's case: a two-valued column of the third tier has been encoded, in a
\* file whose first row holds the value that gets 1.
C1_Witness ==
  /\ pc = "encoded"
  /\ \E i \in DOMAIN df :
       /\ TextFeature(i) /\ ~HasMissing(df[i])
       /\ ValueSet(df[i]) = {"No", "no"}
       /\ df[i].vals[1] = Str("no")
       /\ ColOf(df_enc, df[i].name).vals[1] = Num(1)

\* The levels of a column with more than two categories, as expected from
\* its set of categories alone: ascending, without the least.
ExpectedLevels(col) == Tail(Ascending(ValueSet(col)))

\* C2: a text feature column with k > 2 categories is gone from the output
\* and k-1 indicator columns stand at its end, named column_category for
\* the categories in ascending order without the least; their cells are 0
\* or 1, 1 exactly where the raw cell is the category, so at most one per
\* row; names and order depend on the set of categories only.
C2_Indicators ==
  Did("build_features") =>
    \A i \in DOMAIN df :
      (TextFeature(i) /\ Cardinality(ValueSet(df[i])) > 2) =>
        LET levels == ExpectedLevels(df[i])
            k == Cardinality(ValueSet(df[i]))
            base == Len(df_enc) - (k - 1)
        IN /\ CountOf(df_enc, df[i].name) = 0
           /\ Len(levels) = k - 1
           /\ Len(df_enc) = Len(df) - 1 + (k - 1)
           /\ \A j \in 1..(k - 1) :
                /\ df_enc[base + j].name = df[i].name \o "_" \o levels[j]
                /\ \A r \in DOMAIN df[i].vals :
                     df_enc[base + j].vals[r] =
                       IF df[i].vals[r] = Str(levels[j]) THEN Num(1) ELSE Num(0)
           /\ \A r \in DOMAIN df[i].vals :
                Cardinality({j \in 1..(k - 1) : df_enc[base + j].vals[r] = Num(1)}) <= 1
           /\ \A j \in 1..base : df_enc[j].name \in {df[c].name : c \in DOMAIN df}

\* C2's case: a column of three categories met in descending order has
\* been expanded; the first row is its greatest category, the last row the
\* reference category with no indicator set.
C2_Witness ==
  /\ pc = "encoded"
  /\ \E i \in DOMAIN df :
       /\ TextFeature(i)
       /\ ValueSet(df[i]) = {"Yes", "No", "Male"}
       /\ df[i].vals[1] = Str("Yes") /\ df[i].vals[NRows] = Str("Male")
       /\ df_enc[Len(df_enc)].name = "F_Yes"
       /\ df_enc[Len(df_enc)].vals[1] = Num(1)
       /\ df_enc[Len(df_enc) - 1].vals[NRows] = Num(0)
       /\ df_enc[Len(df_enc)].vals[NRows] = Num(0)

\* "\n".split of the logged text: the names between the line breaks.
RECURSIVE SplitLines(_)
SplitLines(text) ==
  IF text = <<>> THEN <<>>
  ELSE IF Head(text) = "\n" THEN SplitLines(Tail(text))
  ELSE <<Head(text)>> \o SplitLines(Tail(text))

\* The names of the matrix the classifier gets, had the split been reached.
MatrixNames == IF Did("split") THEN Names(X) ELSE Names(Drop(df_enc, {target}))

\* C3: once an invocation has written the contract, feature_columns.json,
\* the logged feature_columns.txt and the record in preprocessing.pkl (on
\* disk and as logged) hold one and the same list, the column names of the
\* matrix X in X's order, without the target; the record names the target.
C3_OneContract ==
  Did("dump_pkl") =>
    /\ json_file = [state |-> "closed", items |-> MatrixNames]
    /\ mlruns[Cur].txt_logged
    /\ SplitLines(mlruns[Cur].feature_txt) = MatrixNames
    /\ pkl_file = [state |-> "closed", feature_column |-> MatrixNames, target |-> target]
    /\ (Did("log_artifact") => mlruns[Cur].pkl = pkl_file)
    /\ target \notin Range(MatrixNames)
    /\ MatrixNames = Names(Keep(df_enc, {i \in DOMAIN df_enc : df_enc[i].name # target}, 1))
    /\ (Did("split") => Len(X) = Len(df_enc) - 1)

\* C3's case: the split has been reached after a contract of four names,
\* indicator columns among them, was written for the target Churn.
C3_Witness ==
  /\ pc = "split"
  /\ target = "Churn"
  /\ Names(X) = <<"tenure", "F_No", "F_Yes">>
  /\ json_file.items = Names(X)
  /\ HasColumn(df_enc, "Churn")

\* C4: every column of the feature matrix handed to the training consumer
\* is numeric; none holds text.  Stated here for the columns that come from
\* a feature with at least two distinct values: section 3 of the spec lets
\* a column with fewer pass through as degenerate.
C4_AllNumeric ==
  Did("split") =>
    \A i \in DOMAIN X :
      (\A c \in DOMAIN df : df[c].name = X[i].name => NUnique(df[c].vals) >= 2) =>
        X[i].dtype # "object"

\* Lower case of the stripped string, for the spellings of Yes and No.
Fold(x) ==
  CASE x \in {"Yes", " Yes"} -> "yes"
    [] x \in {"No", "no"} -> "no"
    [] OTHER -> x

\* C5 as stated: a two-valued text feature column whose values are Yes and
\* No in any spelling comes out with the Yes spelling as 1 and the No
\* spelling as 0.
C5_AnySpelling ==
  Did("build_features") =>
    \A i \in DOMAIN df :
      (/\ TextFeature(i) /\ ~HasMissing(df[i])
       /\ Cardinality(ValueSet(df[i])) = 2
       /\ {Fold(x) : x \in ValueSet(df[i])} = {"yes", "no"}) =>
        LET enc == ColOf(df_enc, df[i].name)
        IN \A r \in DOMAIN df[i].vals :
             enc.vals[r] = IF Fold(df[i].vals[r].s) = "yes" THEN Num(1) ELSE Num(0)

\* C5, amended: a text feature column whose cells are exactly the strings
\* "Yes" and "No" comes out as Int64 with Yes as 1 and No as 0 in every
\* row, and build_features applied to its own result leaves the column as
\* it is.
C5_YesNoExact ==
  Did("build_features") =>
    \A i \in DOMAIN df :
      (TextFeature(i) /\ ~HasMissing(df[i]) /\ ValueSet(df[i]) = {"Yes", "No"}) =>
        LET enc == ColOf(df_enc, df[i].name)
        IN /\ enc.dtype = "Int64"
           /\ \A r \in DOMAIN df[i].vals :
                /\ df[i].vals[r] = Str("Yes") => enc.vals[r] = Num(1)
                /\ df[i].vals[r] = Str("No") => enc.vals[r] = Num(0)
           /\ ColOf(BoolToInt(build_features(df_enc, target)), df[i].name) = enc

\* C5's case: a Yes/No column whose first row is No and whose other rows
\* are Yes has been encoded.
C5_Witness ==
  /\ pc = "encoded"
  /\ \E i \in DOMAIN df :
       /\ TextFeature(i)
       /\ df[i].vals = [r \in 1..NRows |-> IF r = 1 THEN Str("No") ELSE Str("Yes")]
       /\ ColOf(df_enc, df[i].name).vals[1] = Num(0)
       /\ ColOf(df_enc, df[i].name).vals[NRows] = Num(1)

\* The strings that reach the binary encoder: the cells after astype(str).
NormalizedSet(col) == {AsStr(col.vals[r]).s : r \in DOMAIN col.vals}

\* C6: a column build_features takes for binary whose normalized value
\* set has not exactly two members is not in the output as text (the run
\* failed or the column was expanded into indicators), and none of its
\* values was turned into a missing one.
C6_AmbiguousRejected ==
  Did("build_features") =>
    \A i \in binary_cols(df, target) :
      Cardinality(NormalizedSet(df[i])) # 2 =>
        /\ \A j \in DOMAIN df_enc :
             df_enc[j].name = df[i].name => df_enc[j].dtype # "object"
        /\ \A j \in DOMAIN df_enc :
             df_enc[j].name = df[i].name =>
               \A r \in DOMAIN df[i].vals :
                 IsNa(df_enc[j].vals[r]) => IsNa(df[i].vals[r])

\* C7: feature_columns.json on disk, and what a reader got from it, is
\* always a complete contract (or no file yet), never an emptied or partly
\* written one.
C7_AtomicRecord ==
  /\ json_file.state \in {"absent", "closed"}
  /\ observed.state \in {"unread", "absent", "closed"}
  /\ pkl_file.state \in {"absent", "closed"}

\* C8: build_features and the contract write come only after the file was
\* loaded, the verdict was true and the target was found; a missing file,
\* a false verdict or an absent target ends the invocation with an error
\* and without encoding or contract write, the violation details logged
\* before the false verdict raises.
C8_GuardsFirst ==
  /\ Did("build_features") =>
       /\ SubSeq(steps, 1, 5) =
            <<"start_run", "load_data", "validate_ok", "preprocess_data", "build_features">>
       /\ mlruns[Cur].data_quality_pass = 1
       /\ HasColumn(df, target)
  /\ (Did("open_json") \/ json_file.state # "absent" \/ pkl_file.state # "absent"
        \/ feature_cols # <<>>) => Did("build_features")
  /\ (pc \notin {"idle", "started"} /\ ~Did("load_data")) =>
       pc = "aborted" /\ error = "FileNotFoundError"
  /\ (pc \notin {"idle", "started", "loaded"} /\ Did("load_data")
        /\ mlruns[Cur].data_quality_pass # 1) =>
       /\ pc = "aborted" /\ error = "ValueError: data quality"
       /\ mlruns[Cur].failed_expectations
       /\ steps = <<"start_run", "load_data", "log_failed_expectations", "raise_data_quality">>
  /\ (pc \notin {"idle", "started", "loaded", "validated", "preprocessed"}
        /\ Did("preprocess_data") /\ ~HasColumn(df, target)) =>
       pc = "aborted" /\ error = "ValueError: target not found"
  /\ error \in {"FileNotFoundError", "ValueError: data quality",
                 "ValueError: target not found"} =>
       /\ pc = "aborted"
       /\ ~Did("build_features") /\ ~Did("open_json")
       /\ df_enc = <<>> /\ feature_cols = <<>>
       /\ json_file = NoFile /\ pkl_file = NoPkl
       /\ ~mlruns[Cur].txt_logged /\ ~mlruns[Cur].pkl_logged

\* C8's case: an invocation ended on a false verdict with the details
\* logged, and encoded nothing.
C8_Witness ==
  /\ pc = "aborted"
  /\ error = "ValueError: data quality"
  /\ mlruns[Cur].failed_expectations
  /\ raw # <<>>
  /\ df_enc = <<>>

\* C9 as stated: a contract once recorded is never modified or replaced:
\* the closed feature_columns.json and preprocessing.pkl stay as they are.
C9_NeverReplaced ==
  [][/\ json_file.state = "closed" => json_file' = json_file
     /\ pkl_file.state = "closed" => pkl_file' = pkl_file]_vars

\* C9, amended: the contract copies logged to MLflow are append-only: each
\* invocation logs to a run of its own, the runs of earlier invocations
\* never change, and a text or record once logged to a run stays; the
\* local feature_columns.json holds the contract of the latest invocation
\* that wrote it.
C9_RunsAppendOnly ==
  [][/\ Len(mlruns') \in {Len(mlruns), Len(mlruns) + 1}
     /\ \A r \in DOMAIN mlruns :
          /\ r < Len(mlruns) => mlruns'[r] = mlruns[r]
          /\ mlruns[r].txt_logged =>
               mlruns'[r].txt_logged /\ mlruns'[r].feature_txt = mlruns[r].feature_txt
          /\ mlruns[r].pkl_logged =>
               mlruns'[r].pkl_logged /\ mlruns'[r].pkl = mlruns[r].pkl
     /\ (mlruns # <<>> /\ mlruns[Len(mlruns)].txt_logged) =>
          json_file.items = SplitLines(mlruns[Len(mlruns)].feature_txt)]_vars

\* C9's case: two invocations have logged different contracts, both still
\* in their runs, and the local file holds the second.
C9_Witness ==
  /\ Len(mlruns) = 2
  /\ mlruns[1].txt_logged /\ mlruns[2].txt_logged
  /\ mlruns[1].pkl_logged /\ mlruns[2].pkl_logged
  /\ mlruns[1].feature_txt # mlruns[2].feature_txt
  /\ json_file = [state |-> "closed", items |-> SplitLines(mlruns[2].feature_txt)]
  /\ pc = "done"

\* C10: a target column that is text with exactly the values Yes and No
\* holds 1 for Yes and 0 for No after the cleaning stage, and build_features
\* returns it once, with those values.
C10_TargetCleaned ==
  (Did("preprocess_data") /\ HasColumn(raw, target)) =>
    LET rawcol == ColOf(raw, target)
    IN (rawcol.dtype = "object" /\ ~HasMissing(rawcol) /\ ValueSet(rawcol) = {"Yes", "No"}) =>
         /\ CountOf(df, target) = 1
         /\ \A r \in DOMAIN rawcol.vals :
              ColOf(df, target).vals[r] =
                IF rawcol.vals[r] = Str("Yes") THEN Num(1) ELSE Num(0)
         /\ Did("build_features") =>
              /\ CountOf(df_enc, target) = 1
              /\ ColOf(df_enc, target).vals = ColOf(df, target).vals

====
